---- MODULE Spec2Model ----
(***************************************************************************)
(* A model of tools/dts2nim.ts: the identifier scrubber, the Gen classes,  *)
(* the GenVendor that builds them from TypeScript symbols, and the         *)
(* dependency ordering of the generated declarations.                      *)
(*                                                                         *)
(* A JavaScript string is modelled as the sequence of its characters, so   *)
(* that replace, slice and concatenation are computed, not assumed.        *)
(* A thrown exception is modelled by the field exc of the record an        *)
(* operator returns; the vendor's mutable state is threaded through as st. *)
(***************************************************************************)
EXTENDS Integers, Sequences, FiniteSets, TLC

VARIABLES
    pc,                 \* position of the script
    id, once, twice,    \* an identifier, identifierScrub of it, and of that
    symbols,            \* the oracle: symbol name -> symbol
    order,              \* typeChecker.getSymbolsInScope(...): names, in order
    cursor,             \* index into order of the next symbol of the loop
    classes,            \* vendor.classes: name -> ClassGen object
    warnings,           \* everything passed to warn, in order
    calls,              \* one record per finished classGen call, in order
    generators,         \* let generators : Gen[]
    dependencies,       \* the graphlib Graph
    groupedGenerators,  \* tarjan's components, mapped to node labels
    sortedGenerators,   \* the declarations kept, in order
    output              \* decls(sortedGenerators), one rendering per declaration

vars == <<pc, id, once, twice, symbols, order, cursor, classes, warnings, calls,
          generators, dependencies, groupedGenerators, sortedGenerators, output>>

-----------------------------------------------------------------------------
(* Strings *)

LowerCase == <<"a","b","c","d","e","f","g","h","i","j","k","l","m",
               "n","o","p","q","r","s","t","u","v","w","x","y","z">>
UpperCase == <<"A","B","C","D","E","F","G","H","I","J","K","L","M",
               "N","O","P","Q","R","S","T","U","V","W","X","Y","Z">>

\* String.prototype.toUpperCase on one character
toUpperCase(c) ==
    IF \E k \in 1..Len(LowerCase) : LowerCase[k] = c
    THEN UpperCase[CHOOSE k \in 1..Len(LowerCase) : LowerCase[k] = c]
    ELSE c

\* str.slice(n) for 0 <= n, with JavaScript's 0-based n
slice(str, n) == IF n >= Len(str) THEN <<>> ELSE SubSeq(str, n + 1, Len(str))

capitalizeFirstLetter(str) ==
    IF Len(str) = 0 THEN <<>> ELSE <<toUpperCase(str[1])>> \o slice(str, 1)

reserved == {
    <<"a","d","d","r">>, <<"a","n","d">>, <<"a","s">>, <<"a","s","m">>,
    <<"a","t","o","m","i","c">>, <<"b","i","n","d">>, <<"b","l","o","c","k">>,
    <<"b","r","e","a","k">>, <<"c","a","s","e">>, <<"c","a","s","t">>,
    <<"c","o","n","c","e","p","t">>, <<"c","o","n","s","t">>,
    <<"c","o","n","t","i","n","u","e">>, <<"c","o","n","v","e","r","t","e","r">>,
    <<"d","e","f","e","r">>, <<"d","i","s","c","a","r","d">>,
    <<"d","i","s","t","i","n","c","t">>, <<"d","i","v">>, <<"d","o">>, <<"e","l","i","f">>,
    <<"e","l","s","e">>, <<"e","n","d">>, <<"e","n","u","m">>, <<"e","x","c","e","p","t">>,
    <<"e","x","p","o","r","t">>, <<"f","i","n","a","l","l","y">>, <<"f","o","r">>,
    <<"f","r","o","m">>, <<"f","u","n","c">>, <<"g","e","n","e","r","i","c">>, <<"i","f">>,
    <<"i","m","p","o","r","t">>, <<"i","n">>, <<"i","n","c","l","u","d","e">>,
    <<"i","n","t","e","r","f","a","c","e">>, <<"i","s">>, <<"i","s","n","o","t">>,
    <<"i","t","e","r","a","t","o","r">>, <<"l","e","t">>, <<"m","a","c","r","o">>,
    <<"m","e","t","h","o","d">>, <<"m","i","x","i","n">>, <<"m","o","d">>, <<"n","i","l">>,
    <<"n","o","t">>, <<"n","o","t","i","n">>, <<"o","b","j","e","c","t">>, <<"o","f">>,
    <<"o","r">>, <<"o","u","t">>, <<"p","r","o","c">>, <<"p","t","r">>,
    <<"r","a","i","s","e">>, <<"r","e","f">>, <<"r","e","t","u","r","n">>, <<"s","h","l">>,
    <<"s","h","r">>, <<"s","t","a","t","i","c">>, <<"t","e","m","p","l","a","t","e">>,
    <<"t","r","y">>, <<"t","u","p","l","e">>, <<"t","y","p","e">>, <<"u","s","i","n","g">>,
    <<"v","a","r">>, <<"w","h","e","n">>, <<"w","h","i","l","e">>, <<"w","i","t","h">>,
    <<"w","i","t","h","o","u","t">>, <<"x","o","r">>, <<"y","i","e","l","d">> }

\* str.replace(/_{2,}/, "_"): the regular expression has no g flag, so only the
\* leftmost run of two or more underscores is replaced (the run, greedily).
replaceUnderscores(str) ==
    LET starts == {k \in 1..(Len(str) - 1) : str[k] = "_" /\ str[k + 1] = "_"}
    IN  IF starts = {} THEN str
        ELSE LET first == CHOOSE k \in starts : \A j \in starts : k <= j
                 last  == CHOOSE k \in first..Len(str) :
                              /\ \A j \in first..k : str[j] = "_"
                              /\ (k = Len(str) \/ str[k + 1] # "_")
             IN  SubSeq(str, 1, first - 1) \o <<"_">> \o SubSeq(str, last + 1, Len(str))

\* str.replace(/\$/, "zz"): again only the leftmost match
replaceDollar(str) ==
    LET hits == {k \in 1..Len(str) : str[k] = "$"}
    IN  IF hits = {} THEN str
        ELSE LET first == CHOOSE k \in hits : \A j \in hits : k <= j
             IN  SubSeq(str, 1, first - 1) \o <<"z","z">> \o SubSeq(str, first + 1, Len(str))

identifierScrub(name) ==
    LET id1 == replaceDollar(replaceUnderscores(name))
        id2 == IF Len(id1) > 0 /\ id1[1] = "_"
               THEN <<"z">> \o capitalizeFirstLetter(slice(id1, 1))
               ELSE id1
    IN  IF id2 \in reserved
        THEN <<"x">> \o capitalizeFirstLetter(slice(id2, 1))
        ELSE id2

needIdentifierScrub(name) == name # identifierScrub(name)

\* Print the symbol that goes inside the quotes for an importc or importcpp:
\* id.replace(/\$/, "$$$$"), whose replacement string "$$$$" stands for "$$"
importIdentifier(name) ==
    LET hits == {k \in 1..Len(name) : name[k] = "$"}
    IN  IF hits = {} THEN name
        ELSE LET first == CHOOSE k \in hits : \A j \in hits : k <= j
             IN  SubSeq(name, 1, first - 1) \o <<"$","$">> \o SubSeq(name, first + 1, Len(name))

\* {.importc.} with possible symbol correction; symbol is null when none is printed
importDirective(name, cpp) ==
    [directive |-> IF cpp THEN "importcpp" ELSE "importc",
     symbol    |-> IF name # identifierScrub(name) THEN importIdentifier(name) ELSE <<>>]

-----------------------------------------------------------------------------
(* Support *)

null == <<>>    \* JavaScript's null and undefined, where a string or object is expected

blacklist == {
    <<"c","l","a","s","s",":","N","o","d","e","L","i","s","t">>,
    <<"c","l","a","s","s",":","A","r","r","a","y">>,
    <<"c","l","a","s","s",":","A","r","r","a","y","C","o","n","s","t","r","u","c","t","o","r">>,
    <<"f","i","e","l","d",":","E","l","e","m","e","n","t",".",
      "w","e","b","k","i","t","R","e","q","u","e","s","t","F","u","l","l","S","c","r","e","e","n">>,
    <<"f","i","e","l","d",":","H","T","M","L","V","i","d","e","o","E","l","e","m","e","n","t",".",
      "w","e","b","k","i","t","E","n","t","e","r","F","u","l","l","s","c","r","e","e","n">>,
    <<"f","i","e","l","d",":","H","T","M","L","V","i","d","e","o","E","l","e","m","e","n","t",".",
      "w","e","b","k","i","t","E","x","i","t","F","u","l","l","s","c","r","e","e","n">> }

blacklisted(nspace, name) ==
    name \in blacklist \/ (nspace \o <<":">> \o name) \in blacklist

arrayFilter(x) == IF x # null THEN <<x>> ELSE <<>>

RECURSIVE concatAll(_)
concatAll(x) == IF x = <<>> THEN <<>> ELSE Head(x) \o concatAll(Tail(x))

-----------------------------------------------------------------------------
(* Results of the vendor's operations.  st is the vendor's state after the  *)
(* operation: [classes, warnings, calls].  exc is "none" when the operation *)
(* returned val, and otherwise the class of the exception it threw, with    *)
(* val what the exception carries (its message, or the unusable type).      *)

Return(st, val)     == [st |-> st, exc |-> "none", val |-> val]
Throw(st, exc, val) == [st |-> st, exc |-> exc, val |-> val]

warn(st, message) == [st EXCEPT !.warnings = Append(@, message)]

-----------------------------------------------------------------------------
(* Generator classes.  A ClassGen object is a record of vendor.classes; a   *)
(* reference to it (a TypeGen value) carries its name, under which the      *)
(* vendor memoizes the only ClassGen it ever creates for that name.         *)

LiteralTypeGen(literal) == [gen |-> "LiteralTypeGen", literal |-> literal, name |-> null]
ClassGenRef(name)       == [gen |-> "ClassGen", literal |-> null, name |-> name]

ClassGen(name, abstract) ==
    [name |-> name, abstract |-> abstract, inherit |-> null, fields |-> <<>>,
     constructors |-> <<>>, methods |-> <<>>, inited |-> FALSE, invalid |-> FALSE]

VariableGen(name, type)  == [gen |-> "VariableGen", name |-> name, type |-> type]
ParameterGen(name, type) == [gen |-> "ParameterGen", name |-> name, type |-> type]
FieldGen(name, type)     == [gen |-> "FieldGen", name |-> name, type |-> type]
SignatureGen(name, params, returnType) ==
    [gen |-> "SignatureGen", name |-> name, params |-> params,
     returnType |-> returnType, owner |-> null]
ConstructorGen(params)   == [gen |-> "ConstructorGen", params |-> params, owner |-> null]

\* ClassGen.init
init(this, inherit, fields, constructors, methods) ==
    [this EXCEPT !.inherit = inherit,
                 !.fields = fields,
                 !.constructors = [k \in 1..Len(constructors) |->
                                      [constructors[k] EXCEPT !.owner = this.name]],
                 !.methods = [k \in 1..Len(methods) |->
                                 [methods[k] EXCEPT !.owner = this.name]],
                 !.inited = TRUE]

\* dependKey of a TypeGen: LiteralTypeGen.dependKey and ClassGen.dependKey
typeDependKey(type) == IF type.gen = "ClassGen" THEN type.name ELSE null

\* IdentifierGen.depends
identifierDepends(g) == arrayFilter(typeDependKey(g.type))

\* allDepends over ParameterGen[] or FieldGen[]
allIdentifierDepends(gens) ==
    concatAll([k \in 1..Len(gens) |-> identifierDepends(gens[k])])

\* SignatureGen.depends
signatureDepends(g) ==
    allIdentifierDepends(g.params) \o arrayFilter(typeDependKey(g.returnType))

\* ConstructorGen.depends
constructorDepends(g) == allIdentifierDepends(g.params)

\* ClassGen.depends, on the ClassGen object this
classDepends(this) ==
    concatAll(<<
        allIdentifierDepends(this.fields),
        concatAll([k \in 1..Len(this.constructors) |-> constructorDepends(this.constructors[k])]),
        concatAll([k \in 1..Len(this.methods) |-> signatureDepends(this.methods[k])]) >>)
    \o (IF this.inherit # null THEN <<this.inherit>> ELSE <<>>)

RECURSIVE chainHasField(_, _, _)

\* chainHasField with the fields of gen itself left out
chainHasFieldAbove(cls, gen, name) ==
    IF gen = null THEN FALSE ELSE chainHasField(cls, cls[gen].inherit, name)

chainHasField(cls, gen, name) ==
    IF gen = null THEN FALSE
    ELSE IF \E k \in 1..Len(cls[gen].fields) : cls[gen].fields[k].name = name THEN TRUE
    ELSE chainHasField(cls, cls[gen].inherit, name)

-----------------------------------------------------------------------------
(* The oracle (TypeScript's type checker), as the script reads it.          *)
(*   a type:   [flags, symbol, callSignatures], flags a set of TypeFlags    *)
(*   a call signature: [parameters, returnType]                             *)
(*   a parameter symbol: [name, type]                                       *)
(*   a member symbol: [name, flags, type, declarations], flags a set of     *)
(*             SymbolFlags, declarations (of a constructor) each a record   *)
(*             [parameters]                                                 *)
(*   a symbol in scope: [name, flags, type, heritage, members], heritage    *)
(*             the name of heritageClauses[0].types[0] or null              *)

\* A warning: what was skipped (kind), its name, the class it is on, a counter
Warning(kind, name, on, n) ==
    [kind |-> kind, name |-> name, on |-> on, n |-> n, names |-> <<>>]

\* The state of the ClassGen of a name: the lifecycle kept by the two flags
\* inited and invalid and by membership in vendor.classes
lifecycle(cls, name) ==
    IF name \notin DOMAIN cls THEN "unbuilt"
    ELSE IF cls[name].invalid /\ cls[name].inited THEN "broken"
    ELSE IF cls[name].invalid THEN "invalid"
    ELSE IF cls[name].inited THEN "built"
    ELSE "building"

\* e instanceof UnusableType, in the catch clauses that downgrade it to a warning
instanceofNothing(exc) == FALSE

instanceofUnusableType(exc) == exc = "UnusableType"

\* if (already.invalid), on the memoized ClassGen
invalidNever(already) == FALSE

invalid(already) == already.invalid

\* if (!inherit.inited), on the ClassGen the heritage clause names
notInitedNever(inherit) == FALSE

notInited(inherit) == ~inherit.inited

\* if (!foundConstructors) {...}: the constructors pushed when the members held no
\* constructor declaration, inherit being the name of the parent or null
ownConstructorOnly(cls, inherit) == <<ConstructorGen(<<>>)>>

defaultConstructors(cls, inherit) ==
    IF inherit # null /\ cls[inherit].inited
    THEN [k \in 1..Len(cls[inherit].constructors) |->
             ConstructorGen(cls[inherit].constructors[k].params)]
    ELSE <<ConstructorGen(<<>>)>>

RECURSIVE classGen(_, _, _), typeGen(_, _), paramsGen(_, _), callSignaturesGen(_, _, _, _, _),
          constructorsGen(_, _, _, _, _), membersGen(_, _, _, _, _)

(* A step that goes on from the result of a call takes that result as a     *)
(* parameter: the operators named ...Then, ...Catch and ...End below are    *)
(* the rest of the function after the call whose result they are given.     *)

\* syms.map(...): the ParameterGen of sym put before those of the rest
paramsGenEnd(sym, type, rest) ==
    IF rest.exc # "none" THEN rest
    ELSE Return(rest.st, <<ParameterGen(sym.name, type.val)>> \o rest.val)

\* syms.map(...): after this.typeGen(...) of sym, the parameters after it
paramsGenThen(sym, type, syms) ==
    IF type.exc # "none" THEN type
    ELSE paramsGenEnd(sym, type, paramsGen(type.st, syms))

\* GenVendor.paramsGen: syms.map(...), left to right, ended by the first throw
paramsGen(st, syms) ==
    IF syms = <<>> THEN Return(st, <<>>)
    ELSE paramsGenThen(Head(syms), typeGen(st, Head(syms).type), Tail(syms))

\* new SignatureGen(sym.name, params, returnType)
signatureGenEnd(sym, params, returnType) ==
    IF returnType.exc # "none" THEN returnType
    ELSE Return(returnType.st, SignatureGen(sym.name, params.val, returnType.val))

\* after this.paramsGen(...): this.typeGen(callSignature.getReturnType())
signatureGenThen(sym, callSignature, params) ==
    IF params.exc # "none" THEN params
    ELSE signatureGenEnd(sym, params, typeGen(params.st, callSignature.returnType))

\* GenVendor.signatureGen
signatureGen(st, sym, callSignature) ==
    signatureGenThen(sym, callSignature, paramsGen(st, callSignature.parameters))

\* result.push(sig) or the catch clause, and the rest of the loop
callSignaturesCatch(sym, on, counter, result, sig) ==
    IF sig.exc = "none"
    THEN callSignaturesGen(sig.st, sym, on, counter + 1, Append(result, sig.val))
    ELSE IF instanceofUnusableType(sig.exc)
    THEN callSignaturesGen(
             \* the warning of a method names sym.name, the class it is on
             warn(sig.st, Warning(IF on = null THEN "function" ELSE "method",
                                  IF on = null THEN sym.name ELSE on,
                                  on, counter + 1)),
             sym, on, counter + 1, result)
    ELSE sig

\* for (let callSignature of ...getCallSignatures()) { try {...} catch ... }, the
\* loop of functionGen (on = null) and of a method member (on = the class):
\* from call signature number counter + 1 on, with result what was pushed so far
callSignaturesGen(st, sym, on, counter, result) ==
    IF counter >= Len(sym.type.callSignatures) THEN Return(st, result)
    ELSE callSignaturesCatch(sym, on, counter, result,
             signatureGen(st, sym, sym.type.callSignatures[counter + 1]))

\* GenVendor.functionGen
functionGen(st, sym) ==
    IF blacklisted(<<"v","a","r","i","a","b","l","e">>, sym.name)
    THEN Throw(st, "GenConstructFail", Warning("blacklisted function", sym.name, null, 0))
    ELSE callSignaturesGen(st, sym, null, 0, <<>>)

\* new VariableGen(sym.name, type), or the catch clause of variableGen
variableGenCatch(sym, type) ==
    IF type.exc = "none" THEN Return(type.st, VariableGen(sym.name, type.val))
    ELSE IF instanceofUnusableType(type.exc)
    THEN Throw(type.st, "GenConstructFail",
               Warning("untranslatable variable", sym.name, null, 0))
    ELSE type

\* GenVendor.variableGen
variableGen(st, sym) ==
    IF blacklisted(<<"v","a","r","i","a","b","l","e">>, sym.name)
    THEN Throw(st, "GenConstructFail", Warning("blacklisted variable", sym.name, null, 0))
    ELSE variableGenCatch(sym, typeGen(st, sym.type))

\* constructors.push(new ConstructorGen(params)) or the catch clause, and the rest
\* of the loop; foundConstructors++ comes before the try
constructorsCatch(name, member, k, acc, params) ==
    IF params.exc = "none"
    THEN constructorsGen(params.st, name, member, k + 1,
             [acc EXCEPT !.foundConstructors = @ + 1,
                         !.constructors = Append(@, ConstructorGen(params.val))])
    ELSE IF instanceofUnusableType(params.exc)
    THEN constructorsGen(
             warn(params.st, Warning("constructor", null, name, acc.foundConstructors + 1)),
             name, member, k + 1, [acc EXCEPT !.foundConstructors = @ + 1])
    ELSE params

\* The loop over member.declarations of a constructor member: from declaration
\* number k on; acc holds fields, methods, constructors and foundConstructors
constructorsGen(st, name, member, k, acc) ==
    IF k > Len(member.declarations) THEN Return(st, acc)
    ELSE constructorsCatch(name, member, k, acc,
             paramsGen(st, member.declarations[k].parameters))

\* fields.push(new FieldGen(member.name, type)) or the catch clause
fieldCatch(name, member, acc, type) ==
    IF type.exc = "none"
    THEN Return(type.st, [acc EXCEPT !.fields = Append(@, FieldGen(member.name, type.val))])
    ELSE IF instanceofUnusableType(type.exc)
    THEN Return(warn(type.st, Warning("property", member.name, name, 0)), acc)
    ELSE type

\* The signatures methods.push(...) has added when the loop over the call
\* signatures of a method ends
methodsEnd(acc, sigs) ==
    IF sigs.exc = "none" THEN Return(sigs.st, [acc EXCEPT !.methods = @ \o sigs.val])
    ELSE sigs

\* One round of for (let key in sym.members), on member
memberGen(st, name, inherit, member, acc) ==
    IF "Constructor" \in member.flags
    THEN constructorsGen(st, name, member, 1, acc)
    ELSE IF "Property" \in member.flags
    THEN IF blacklisted(<<"f","i","e","l","d">>, name \o <<".">> \o member.name)
         THEN Return(warn(st, Warning("blacklisted field", member.name, name, 0)), acc)
         ELSE IF ~chainHasField(st.classes, inherit, member.name)
         THEN fieldCatch(name, member, acc, typeGen(st, member.type))
         ELSE Return(st, acc)
    ELSE IF "Method" \in member.flags
    THEN IF blacklisted(<<"f","i","e","l","d">>, name \o <<".">> \o member.name)
         THEN Return(warn(st, Warning("blacklisted method", member.name, name, 0)), acc)
         ELSE methodsEnd(acc, callSignaturesGen(st, member, name, 0, <<>>))
    ELSE Return(warn(st, Warning("member", member.name, name, 0)), acc)

\* The rounds after the one that ended as step
membersGenThen(name, inherit, members, step) ==
    IF step.exc # "none" THEN step
    ELSE membersGen(step.st, name, inherit, members, step.val)

\* for (let key in sym.members), on the members from the head of members on
membersGen(st, name, inherit, members, acc) ==
    IF members = <<>> THEN Return(st, acc)
    ELSE membersGenThen(name, inherit, Tail(members),
             memberGen(st, name, inherit, Head(members), acc))

\* if (!inherit.inited) throw ..., on what vendor.classGen(inheritSymbol) gave
superclassThen(name, inherit) ==
    IF inherit.exc # "none" THEN inherit
    ELSE IF notInited(inherit.st.classes[symbols[name].heritage])
    THEN Throw(inherit.st, "GenConstructFail",
               Warning("mutually recursive", name, symbols[name].heritage, 0))
    ELSE Return(inherit.st, symbols[name].heritage)

\* Get superclass: val is the name of inherit, or null
superclass(st, name) ==
    IF symbols[name].heritage = null THEN Return(st, null)
    ELSE superclassThen(name, classGen(st, symbols[name].heritage, FALSE))

\* Get constructor, and result.init(inherit, fields, constructors, methods)
classTryEnd(name, inherit, loop) ==
    IF loop.exc # "none" THEN loop
    ELSE Return([loop.st EXCEPT !.classes[name] =
                    init(@, inherit, loop.val.fields,
                         IF loop.val.foundConstructors = 0
                         THEN loop.val.constructors
                              \o defaultConstructors(loop.st.classes, inherit)
                         ELSE loop.val.constructors,
                         loop.val.methods)],
                ClassGenRef(name))

\* Iterate over class members, after Get superclass
classTryThen(name, parent) ==
    IF parent.exc # "none" THEN parent
    ELSE classTryEnd(name, parent.val,
             membersGen(parent.st, name, parent.val, symbols[name].members,
                 [fields |-> <<>>, methods |-> <<>>, constructors |-> <<>>,
                  foundConstructors |-> 0]))

\* The try block of classGen, run after this.classes[name] = result
classTry(st, name) == classTryThen(name, superclass(st, name))

\* catch (e) { result.invalid = true; throw e }
classCatch(name, try) ==
    IF try.exc = "none" THEN try ELSE [try EXCEPT !.st.classes[name].invalid = TRUE]

\* The body of GenVendor.classGen
classLookup(st, name, abstract) ==
    IF name \in DOMAIN st.classes
    THEN IF invalid(st.classes[name])
         THEN Throw(st, "GenConstructFail", Warning("unbuildable", name, null, 0))
         ELSE Return(st, ClassGenRef(name))
    ELSE IF blacklisted(<<"c","l","a","s","s">>, name)
    THEN Throw(st, "GenConstructFail", Warning("blacklisted class", name, null, 0))
    ELSE classCatch(name, classTry([st EXCEPT !.classes =
                                       (name :> ClassGen(name, abstract)) @@ @], name))

\* The record of a classGen call that started in st and ended as result
classCall(st, name, result) ==
    [result EXCEPT !.st.calls = Append(@,
        [name     |-> name,
         before   |-> lifecycle(st.classes, name),
         building |-> {n \in DOMAIN st.classes : lifecycle(st.classes, n) = "building"},
         created  |-> name \notin DOMAIN st.classes /\ name \in DOMAIN result.st.classes,
         exc      |-> result.exc,
         after    |-> lifecycle(result.st.classes, name)])]

\* GenVendor.classGen.  Each call adds to st.calls a record of what it met and did:
\* the lifecycle state of the name before the call, the names under construction
\* then, whether it created a ClassGen, and how it ended.
classGen(st, name, abstract) == classCall(st, name, classLookup(st, name, abstract))

\* GenVendor.typeGen
typeGen(st, tsType) ==
    IF "Number" \in tsType.flags
    THEN Return(st, LiteralTypeGen(<<"f","l","o","a","t">>))
    ELSE IF "String" \in tsType.flags
    THEN Return(st, LiteralTypeGen(<<"c","s","t","r","i","n","g">>))
    ELSE IF "Void" \in tsType.flags
    THEN Return(st, LiteralTypeGen(<<"v","o","i","d">>))
    ELSE IF "Boolean" \in tsType.flags
    THEN Return(st, LiteralTypeGen(<<"b","o","o","l">>))
    ELSE IF "Class" \in tsType.flags /\ tsType.symbol # null
    THEN classGen(st, tsType.symbol, FALSE)
    ELSE Throw(st, "UnusableType", tsType)

-----------------------------------------------------------------------------
(* Rendering: declString and typeString.  A rendered declaration is a       *)
(* record of the strings the template puts together, not the joined text.   *)

\* LiteralTypeGen.typeString and ClassGen.typeString
typeString(type) == IF type.gen = "ClassGen" THEN type.name ELSE type.literal

\* ParameterGen.declString
parameterDeclString(g) == [name |-> identifierScrub(g.name), type |-> typeString(g.type)]

\* params(a: Gen[]) on ParameterGen[]
params(a) == [k \in 1..Len(a) |-> parameterDeclString(a[k])]

\* VariableGen.declString
variableDeclString(g) ==
    [decl |-> "var", name |-> identifierScrub(g.name),
     directive |-> importDirective(g.name, FALSE).directive,
     symbol |-> importDirective(g.name, FALSE).symbol,
     type |-> typeString(g.type)]

\* FieldGen.declString
fieldDeclString(g) ==
    [name |-> identifierScrub(g.name),
     symbol |-> IF needIdentifierScrub(g.name) THEN importIdentifier(g.name) ELSE null,
     type |-> typeString(g.type)]

\* SignatureGen.declString
signatureDeclString(g) ==
    LET fullParams == (IF g.owner # null
                       THEN <<ParameterGen(<<"s","e","l","f">>, ClassGenRef(g.owner))>>
                       ELSE <<>>) \o g.params
    IN  [decl |-> "proc", name |-> identifierScrub(g.name), params |-> params(fullParams),
         returns |-> typeString(g.returnType),
         directive |-> importDirective(g.name, g.owner # null).directive,
         symbol |-> importDirective(g.name, g.owner # null).symbol]

\* ConstructorGen.declString
constructorDeclString(g) ==
    LET scrubbed == identifierScrub(g.owner)
    IN  [decl |-> "proc", name |-> <<"n","e","w">> \o capitalizeFirstLetter(scrubbed),
         params |-> params(g.params), returns |-> scrubbed,
         directive |-> "importcpp",
         symbol |-> <<"n","e","w"," ">> \o importIdentifier(g.owner)
                    \o (IF Len(g.params) # 0 THEN <<"(","@",")">> ELSE <<>>)]

\* ClassGen.declString, on the ClassGen object this
classDeclString(this) ==
    LET methods == [k \in 1..Len(this.methods) |-> signatureDeclString(this.methods[k])]
        fullMethods ==
            IF ~this.abstract
            THEN [k \in 1..Len(this.constructors) |->
                     constructorDeclString(this.constructors[k])] \o methods
            ELSE methods
    IN  [decl |-> "type", name |-> identifierScrub(this.name),
         directive |-> importDirective(this.name, FALSE).directive,
         symbol |-> importDirective(this.name, FALSE).symbol,
         parent |-> IF this.inherit # null THEN identifierScrub(this.inherit)
                    ELSE <<"R","o","o","t","O","b","j">>,
         fields |-> [k \in 1..Len(this.fields) |-> fieldDeclString(this.fields[k])],
         procs |-> fullMethods]

\* gen.declString(), gen.dependKey() and gen.depends() on an element of generators,
\* with cls the ClassGen objects that a ClassGen reference points into
declString(cls, g) ==
    IF g.gen = "ClassGen" THEN classDeclString(cls[g.name])
    ELSE IF g.gen = "VariableGen" THEN variableDeclString(g)
    ELSE signatureDeclString(g)

dependKey(g) == g.name

depends(cls, g) ==
    IF g.gen = "ClassGen" THEN classDepends(cls[g.name])
    ELSE IF g.gen = "VariableGen" THEN identifierDepends(g)
    ELSE signatureDepends(g)

-----------------------------------------------------------------------------
(* The dependency graph.  A graphlib Graph keeps its nodes, and each node's *)
(* successors, in insertion order.  A node's label is a reference to a Gen: *)
(* its index in generators, or 0 for the undefined label of a node that     *)
(* only setEdge created.                                                    *)

undefined == 0

Graph == [nodes |-> <<>>, label |-> <<>>, sucs |-> <<>>]

hasNode(g, v) == \E k \in 1..Len(g.nodes) : g.nodes[k] = v
nodeIndex(g, v) == CHOOSE k \in 1..Len(g.nodes) : g.nodes[k] = v

\* dependencies.node(v)
node(g, v) == g.label[nodeIndex(g, v)]

\* Graph.setNode(v, value); with value = undefined it is the setNode(v) of setEdge
setNode(g, v, value) ==
    IF hasNode(g, v)
    THEN IF value # undefined THEN [g EXCEPT !.label[nodeIndex(g, v)] = value] ELSE g
    ELSE [nodes |-> Append(g.nodes, v), label |-> Append(g.label, value),
          sucs |-> Append(g.sucs, <<>>)]

\* Graph.setEdge(v, w), on the graph g that has the two nodes
setEdgeObj(g, v, w) ==
    IF \E j \in 1..Len(g.sucs[nodeIndex(g, v)]) : g.sucs[nodeIndex(g, v)][j] = w THEN g
    ELSE [g EXCEPT !.sucs[nodeIndex(g, v)] = Append(@, w)]

\* Graph.setEdge(v, w)
setEdge(g, v, w) == setEdgeObj(setNode(setNode(g, v, undefined), w, undefined), v, w)

\* dependencies.successors(v)
successors(g, v) == g.sucs[nodeIndex(g, v)]

RECURSIVE setEdges(_, _, _), setEdgesReversed(_, _, _)

\* The loop with setEdge(dep, key) for setEdge(key, dep)
setEdgesReversed(g, key, deps) ==
    IF deps = <<>> THEN g
    ELSE setEdgesReversed(setEdge(g, Head(deps), key), key, Tail(deps))

\* for (let dep of gen.depends()) dependencies.setEdge(key, dep)
setEdges(g, key, deps) ==
    IF deps = <<>> THEN g ELSE setEdges(setEdge(g, key, Head(deps)), key, Tail(deps))

RECURSIVE addGenerators(_, _, _, _)
\* for (let gen of generators) { setNode(key, gen); setEdge(key, dep)... }, from
\* generator number k on
addGenerators(g, cls, gens, k) ==
    IF k > Len(gens) THEN g
    ELSE addGenerators(
             setEdges(setNode(g, dependKey(gens[k]), k), dependKey(gens[k]),
                      depends(cls, gens[k])),
             cls, gens, k + 1)

min(a, b) == IF a < b THEN a ELSE b

RECURSIVE dfs(_, _, _), dfsSuccessors(_, _, _, _)

\* visited[v].lowlink = Math.min(visited[v].lowlink, visited[w].lowlink), in the
\* state d that dfs(w) left
dfsLowlink(v, w, d) == [d EXCEPT !.visited[v].lowlink = min(@, d.visited[w].lowlink)]

\* g.successors(v).forEach(function(w) {...}) of graphlib.alg.tarjan's dfs
dfsSuccessors(g, v, ws, t) ==
    IF ws = <<>> THEN t
    ELSE dfsSuccessors(g, v, Tail(ws),
             IF Head(ws) \notin DOMAIN t.visited
             THEN dfsLowlink(v, Head(ws), dfs(g, Head(ws), t))
             ELSE IF t.visited[Head(ws)].onStack
             THEN [t EXCEPT !.visited[v].lowlink = min(@, t.visited[Head(ws)].index)]
             ELSE t)

\* do { w = stack.pop(); w.onStack = false; cmpt.push(w) } while (v !== w);
\* results.push(cmpt), with v at the place at of the stack
dfsPop(t, at) ==
    [t EXCEPT !.stack = SubSeq(@, 1, at - 1),
              !.visited = [w \in DOMAIN @ |->
                              IF \E k \in at..Len(t.stack) : t.stack[k] = w
                              THEN [@[w] EXCEPT !.onStack = FALSE] ELSE @[w]],
              !.results = Append(@, [k \in 1..(Len(t.stack) - at + 1) |->
                                        t.stack[Len(t.stack) - k + 1]])]

\* if (entry.lowlink === entry.index) {...}, after the successors of v
dfsEnd(v, t) ==
    IF t.visited[v].lowlink = t.visited[v].index
    THEN dfsPop(t, CHOOSE k \in 1..Len(t.stack) : t.stack[k] = v)
    ELSE t

\* function dfs(v) of graphlib.alg.tarjan; t holds index, stack, visited, results
dfs(g, v, t) ==
    dfsEnd(v, dfsSuccessors(g, v, successors(g, v),
                  [t EXCEPT !.visited = (v :> [onStack |-> TRUE, lowlink |-> t.index,
                                               index |-> t.index]) @@ @,
                            !.index = @ + 1,
                            !.stack = Append(@, v)]))

RECURSIVE tarjanFrom(_, _, _)
\* g.nodes().forEach(function(v) { if (!_.has(visited, v)) dfs(v) }), from node k on
tarjanFrom(g, k, t) ==
    IF k > Len(g.nodes) THEN t
    ELSE tarjanFrom(g, k + 1, IF g.nodes[k] \notin DOMAIN t.visited THEN dfs(g, g.nodes[k], t) ELSE t)

\* graphlib.alg.tarjan(g): the strongly connected components, each before every
\* component that has an edge into it
tarjan(g) ==
    tarjanFrom(g, 1, [index |-> 0, stack |-> <<>>, visited |-> <<>>, results |-> <<>>]).results

\* .map( scc => scc.map( id => dependencies.node(id) ) )
labels(g, sccs) == [k \in 1..Len(sccs) |-> [j \in 1..Len(sccs[k]) |-> node(g, sccs[k][j])]]

\* graphlib.alg.tarjan(dependencies).map( scc => scc.map( id => dependencies.node(id) ) )
grouped(g) == labels(g, tarjan(g))

\* The test with group.length > 2 for group.length > 1
keptUpToTwo(group) == ~(Len(group) > 2) /\ group[1] # undefined

\* Whether the loop over groupedGenerators pushes group[0]
kept(group) == ~(Len(group) > 1) /\ group[1] # undefined

RECURSIVE sorted(_)
\* sortedGenerators after the loop over the groups
sorted(groups) ==
    IF groups = <<>> THEN <<>>
    ELSE (IF kept(Head(groups)) THEN <<Head(groups)[1]>> ELSE <<>>) \o sorted(Tail(groups))

RECURSIVE cycleWarnings(_, _)
\* The warnings of the loop over the groups: one for each group of two or more
cycleWarnings(groups, gens) ==
    IF groups = <<>> THEN <<>>
    ELSE (IF Len(Head(groups)) > 1
          THEN <<[Warning("mutually recursive types", null, null, 0) EXCEPT !.names =
                     [k \in 1..Len(Head(groups)) |-> dependKey(gens[Head(groups)[k]])]]>>
          ELSE <<>>) \o cycleWarnings(Tail(groups), gens)

-----------------------------------------------------------------------------
(* Symbol tables.  What the oracle can hand to the script is put together   *)
(* from these: a type carries the TypeFlags the checker gives it (Class for *)
(* the instance type of a class symbol, Interface for that of an interface  *)
(* symbol), a symbol the SymbolFlags of its declaration.                    *)

PrimitiveType(flag) == [flags |-> {flag}, symbol |-> null, callSignatures |-> <<>>]

\* The declared type of the class or interface symbol name, of kind "Class" or "Interface"
ObjectType(name, kind) == [flags |-> {kind}, symbol |-> name, callSignatures |-> <<>>]

\* The type of a function or method with these call signatures
FunctionType(name, callSignatures) ==
    [flags |-> {"Anonymous"}, symbol |-> name, callSignatures |-> callSignatures]

Parameter(name, type) == [name |-> name, type |-> type]

CallSignature(parameters, returnType) == [parameters |-> parameters, returnType |-> returnType]

ConstructorMember(overloads) ==
    [name |-> <<"_","_","c","o","n","s","t","r","u","c","t","o","r">>,
     flags |-> {"Constructor"}, type |-> PrimitiveType("Any"),
     declarations |-> [k \in 1..Len(overloads) |-> [parameters |-> overloads[k]]]]

PropertyMember(name, type) ==
    [name |-> name, flags |-> {"Property"}, type |-> type, declarations |-> <<>>]

MethodMember(name, callSignatures) ==
    [name |-> name, flags |-> {"Method"}, type |-> FunctionType(name, callSignatures),
     declarations |-> <<>>]

OtherMember(name) ==
    [name |-> name, flags |-> {"TypeParameter"}, type |-> PrimitiveType("Any"),
     declarations |-> <<>>]

\* A class or interface in scope; the type of a class symbol at a location is the
\* type of its constructor function, whose symbol is the class symbol
StructuredSymbol(name, kind, heritage, members) ==
    [name |-> name, flags |-> {kind}, type |-> FunctionType(name, <<>>),
     heritage |-> heritage, members |-> members]

VariableSymbol(name, type) ==
    [name |-> name, flags |-> {"BlockScopedVariable"}, type |-> type,
     heritage |-> null, members |-> <<>>]

FunctionSymbol(name, callSignatures) ==
    [name |-> name, flags |-> {"Function"}, type |-> FunctionType(name, callSignatures),
     heritage |-> null, members |-> <<>>]

OtherSymbol(name) ==
    [name |-> name, flags |-> {"TypeAlias"}, type |-> PrimitiveType("Any"),
     heritage |-> null, members |-> <<>>]

-----------------------------------------------------------------------------
(* The symbol tables explored.  Every table has the three structured types  *)
(* A, B and C, the function f and the variable v in scope; what they        *)
(* declare is drawn from the sets below, up to MaxItems declared items in   *)
(* the whole table.  The tables of references are closed under renaming A, *)
(* B and C, so visiting them in the order A, B, C covers every order of     *)
(* visiting three structured types.                                         *)

A == <<"A">>
B == <<"B">>
C == <<"C">>
f == <<"f">>
v == <<"v">>
x == <<"x">>
y == <<"y">>
m == <<"m">>
p == <<"p">>
Array == <<"A","r","r","a","y">>

StructNames == {A, B, C}

MaxItems == 3       \* items declared in a table of references, over all its symbols
MaxMemberItems == 3 \* items declared in a table of members, over all its symbols
MaxNameLen == 2     \* characters of the name of a class in a table of names
MaxLen == 5         \* characters of an identifier given to identifierScrub

\* What a symbol in scope declares beyond its bare name: an interface instead of a
\* class, a heritage clause, each member, each constructor overload and each call
\* signature after the first of a member, each call signature of a function, and a
\* variable's type that is not a primitive
RECURSIVE sumLen(_)
sumLen(ss) == IF ss = <<>> THEN 0 ELSE Len(Head(ss)) + sumLen(Tail(ss))

items(sym) ==
    (IF "Interface" \in sym.flags THEN 1 ELSE 0)
    + (IF sym.heritage # null THEN 1 ELSE 0)
    + Len(sym.members)
    + sumLen([k \in 1..Len(sym.members) |->
                 IF "Constructor" \in sym.members[k].flags
                 THEN Tail(sym.members[k].declarations)
                 ELSE IF "Method" \in sym.members[k].flags
                 THEN Tail(sym.members[k].type.callSignatures)
                 ELSE <<>>])
    + (IF "Function" \in sym.flags THEN Len(sym.type.callSignatures) ELSE 0)
    + (IF "BlockScopedVariable" \in sym.flags /\ sym.type.symbol # null THEN 1 ELSE 0)

\* The sequences of at most n elements of S
SeqsUpTo(S, n) == UNION {[1..k -> S] : k \in 0..n}

\* The types of the structured symbols, kinds giving each one's kind; Array is a
\* class the blacklist names
ObjectTypes(kinds) ==
    {ObjectType(n, kinds[n]) : n \in StructNames} \cup {ObjectType(Array, "Class")}

\* Member tables of properties only: none, x, or x and then y
PropertyTables(types) ==
    {<<>>} \cup {<<PropertyMember(x, t)>> : t \in types}
           \cup {<<PropertyMember(x, t), PropertyMember(y, u)>> : t \in types, u \in types}

\* The structured symbols name can be in a table of references: any heritage, and
\* properties whose types are structured types
ReferenceStructs(name, kinds, n) ==
    {s \in {StructuredSymbol(name, kinds[name], h, ms) :
                h \in {null} \cup StructNames, ms \in PropertyTables(ObjectTypes(kinds))} :
        items(s) <= n}

ReferenceFunctions(kinds, n) ==
    {FunctionSymbol(f, sigs) :
        sigs \in SeqsUpTo({CallSignature(<<Parameter(p, t)>>, PrimitiveType("Void")) :
                              t \in ObjectTypes(kinds)}, min(n, 2))}

ReferenceVariables(kinds, n) ==
    {VariableSymbol(v, t) :
        t \in {PrimitiveType("Number")} \cup (IF n > 0 THEN ObjectTypes(kinds) ELSE {})}

\* The order the symbols are visited in: f, which may pass a type to typeGen before
\* the loop reaches the type's own symbol, comes after A and before B and C; v too
Visit == <<A, f, B, v, C>>

\* The state the script starts the loop over the symbols in, for a table
Start(table, visit) ==
    /\ pc = "symbols"
    /\ symbols = table
    /\ order = visit
    /\ cursor = 1
    /\ classes = <<>>
    /\ warnings = <<>>
    /\ calls = <<>>
    /\ generators = <<>>
    /\ dependencies = Graph
    /\ groupedGenerators = <<>>
    /\ sortedGenerators = <<>>
    /\ output = <<>>
    /\ id = <<>> /\ once = <<>> /\ twice = <<>>

\* Tables of references: classes and interfaces that inherit from and have
\* properties of each other, a function and a variable that use them
Init ==
    \E kinds \in [StructNames -> {"Class", "Interface"}] :
      \E a \in ReferenceStructs(A, kinds, MaxItems) :
        \E b \in ReferenceStructs(B, kinds, MaxItems - items(a)) :
          \E c \in ReferenceStructs(C, kinds, MaxItems - items(a) - items(b)) :
            \E fn \in ReferenceFunctions(kinds, MaxItems - items(a) - items(b) - items(c)) :
              \E vr \in ReferenceVariables(kinds,
                          MaxItems - items(a) - items(b) - items(c) - items(fn)) :
                Start((A :> a) @@ (B :> b) @@ (C :> c) @@ (f :> fn) @@ (v :> vr), Visit)

\* Tables of members: classes with constructors, properties and methods, some of an
\* unrepresentable type (any), in every order of enumeration, and a function with
\* such call signatures
Overloads == {<<Parameter(p, PrimitiveType("Number"))>>, <<Parameter(p, PrimitiveType("Any"))>>}

MethodSignatures ==
    {CallSignature(<<Parameter(p, PrimitiveType("Number"))>>, PrimitiveType("Void")),
     CallSignature(<<Parameter(p, PrimitiveType("Any"))>>, PrimitiveType("Void")),
     CallSignature(<<>>, PrimitiveType("Any"))}

Properties ==
    {PropertyMember(x, PrimitiveType("String")), PropertyMember(x, PrimitiveType("Any")),
     PropertyMember(y, PrimitiveType("Boolean"))}

\* The members that count as k items: a property or an unsupported member (one
\* item), a constructor with k overloads, a method with k call signatures
MembersOfSize(k) ==
    (IF k = 1 THEN Properties \cup {OtherMember(<<"o">>)} ELSE {})
    \cup {ConstructorMember(os) : os \in [1..k -> Overloads]}
    \cup {MethodMember(m, ss) : ss \in [1..k -> MethodSignatures]}

RECURSIVE TablesOfSize(_)
\* The member tables of k items in all, in every order, no two members of one name
TablesOfSize(k) ==
    IF k = 0 THEN {<<>>}
    ELSE UNION {{Append(tm[1], tm[2]) :
                    tm \in {um \in TablesOfSize(k - j) \X MembersOfSize(j) :
                               \A i \in 1..Len(um[1]) : um[1][i].name # um[2].name}} :
                j \in 1..k}

RECURSIVE TablesUpTo(_)
\* <<TablesOfSize(0), ..., TablesOfSize(k)>>
TablesUpTo(k) ==
    IF k < 0 THEN <<>> ELSE Append(TablesUpTo(k - 1), TablesOfSize(k))

MemberTables == TablesUpTo(MaxMemberItems)

\* The member tables of properties only, of at most n items
PropertyOnlyTables(n) ==
    {ms \in SeqsUpTo(Properties, n) : \A j, k \in 1..Len(ms) : j # k => ms[j].name # ms[k].name}

\* The classes name can be with one of these heritages and a table of members, in
\* at most n items
MemberStructs(name, heritages, n) ==
    UNION {{StructuredSymbol(name, "Class", h, ms) :
               ms \in UNION {MemberTables[k + 1] :
                                k \in 0..(n - (IF h # null THEN 1 ELSE 0))}} :
           h \in {g \in heritages : g = null \/ n > 0}}

PropertyStructs(name, heritages, n) ==
    UNION {{StructuredSymbol(name, "Class", h, ms) :
               ms \in PropertyOnlyTables(n - (IF h # null THEN 1 ELSE 0))} :
           h \in {g \in heritages : g = null \/ n > 0}}

MemberFunctions(n) ==
    {FunctionSymbol(f, sigs) : sigs \in SeqsUpTo(MethodSignatures, min(n, 2))}

InitMembers ==
    \E a \in MemberStructs(A, {null, B}, MaxMemberItems) :
      \E b \in MemberStructs(B, {null, A, C}, MaxMemberItems - items(a)) :
        \E c \in PropertyStructs(C, {null, B}, MaxMemberItems - items(a) - items(b)) :
          \E fn \in MemberFunctions(MaxMemberItems - items(a) - items(b) - items(c)) :
            Start((A :> a) @@ (B :> b) @@ (C :> c) @@ (f :> fn)
                  @@ (v :> VariableSymbol(v, PrimitiveType("Any"))), Visit)

-----------------------------------------------------------------------------
(* The script *)

\* generators.push(gen), gen what the vendor returned or threw
push(gen) == IF gen.exc = "none" THEN Return(gen.st, <<gen.val>>) ELSE gen

\* The body of for (let sym of typeChecker.getSymbolsInScope(...)): what the try
\* block does for sym, with val the generators it pushes
emitSymbol(st, sym) ==
    IF "Class" \in sym.flags
    THEN push(classGen(st, sym.type.symbol, FALSE))
    ELSE IF "Interface" \in sym.flags
    THEN push(classGen(st, sym.name, TRUE))
    ELSE IF "BlockScopedVariable" \in sym.flags \/ "FunctionScopedVariable" \in sym.flags
    THEN push(variableGen(st, sym))
    ELSE IF "Function" \in sym.flags
    THEN functionGen(st, sym)
    ELSE Return(warn(st, Warning("symbol", sym.name, null, 0)), <<>>)

\* What a round of the loop leaves behind, r what its try block returned or threw:
\* the catch clause warns of a GenConstructFail and rethrows anything else
EmitSymbolEnd(r) ==
    /\ classes' = r.st.classes
    /\ calls' = r.st.calls
    /\ warnings' = IF r.exc = "GenConstructFail" THEN Append(r.st.warnings, r.val)
                   ELSE r.st.warnings
    /\ generators' = IF r.exc = "none" THEN generators \o r.val ELSE generators
    /\ pc' = IF r.exc \notin {"none", "GenConstructFail"} THEN "uncaught"
             ELSE IF cursor = Len(order) THEN "graph" ELSE "symbols"

\* One round of the loop over the symbols in scope
EmitSymbol ==
    /\ pc = "symbols"
    /\ cursor <= Len(order)
    /\ EmitSymbolEnd(emitSymbol([classes |-> classes, warnings |-> warnings,
                                 calls |-> calls], symbols[order[cursor]]))
    /\ cursor' = cursor + 1
    /\ UNCHANGED <<id, once, twice, symbols, order, dependencies, groupedGenerators,
                   sortedGenerators, output>>

\* let dependencies = new graphlib.Graph() and the loop that fills it
BuildGraph ==
    /\ pc = "graph"
    /\ dependencies' = addGenerators(Graph, classes, generators, 1)
    /\ pc' = "tarjan"
    /\ UNCHANGED <<id, once, twice, symbols, order, cursor, classes, warnings, calls,
                   generators, groupedGenerators, sortedGenerators, output>>

\* let groupedGenerators = graphlib.alg.tarjan(dependencies).map(...)
GroupGenerators ==
    /\ pc = "tarjan"
    /\ groupedGenerators' = grouped(dependencies)
    /\ pc' = "sort"
    /\ UNCHANGED <<id, once, twice, symbols, order, cursor, classes, warnings, calls,
                   generators, dependencies, sortedGenerators, output>>

\* The loop over groupedGenerators, and console.log( decls(sortedGenerators) )
SortGenerators ==
    /\ pc = "sort"
    /\ sortedGenerators' = sorted(groupedGenerators)
    /\ warnings' = warnings \o cycleWarnings(groupedGenerators, generators)
    /\ output' = [k \in 1..Len(sorted(groupedGenerators)) |->
                     declString(classes, generators[sorted(groupedGenerators)[k]])]
    /\ pc' = "done"
    /\ UNCHANGED <<id, once, twice, symbols, order, cursor, classes, calls, generators,
                   dependencies, groupedGenerators>>

\* identifierScrub applied to an identifier, and then to its own result
ScrubOnce ==
    /\ pc = "scrub"
    /\ once' = identifierScrub(id)
    /\ pc' = "scrub again"
    /\ UNCHANGED <<id, twice, symbols, order, cursor, classes, warnings, calls, generators,
                   dependencies, groupedGenerators, sortedGenerators, output>>

ScrubTwice ==
    /\ pc = "scrub again"
    /\ twice' = identifierScrub(once)
    /\ pc' = "scrubbed"
    /\ UNCHANGED <<id, once, symbols, order, cursor, classes, warnings, calls, generators,
                   dependencies, groupedGenerators, sortedGenerators, output>>

\* The identifiers given to identifierScrub: every string of at most MaxLen of
\* these characters, which spell the reserved word "in" among others
ScrubAlphabet == {"_", "$", "a", "i", "n"}

InitScrub ==
    /\ pc = "scrub"
    /\ id \in SeqsUpTo(ScrubAlphabet, MaxLen)
    /\ once = <<>> /\ twice = <<>>
    /\ symbols = <<>> /\ order = <<>> /\ cursor = 1
    /\ classes = <<>> /\ warnings = <<>> /\ calls = <<>> /\ generators = <<>>
    /\ dependencies = Graph
    /\ groupedGenerators = <<>> /\ sortedGenerators = <<>> /\ output = <<>>

NextScrub == ScrubOnce \/ ScrubTwice

SpecScrub == InitScrub /\ [][NextScrub]_vars

Next == EmitSymbol \/ BuildGraph \/ GroupGenerators \/ SortGenerators

Spec == Init /\ [][Next]_vars

SpecMembers == InitMembers /\ [][Next]_vars

\* The names a class can have in a table of names: the identifiers of at most
\* MaxNameLen of the characters of ScrubAlphabet, the keyword "in" left out
TypeNames == SeqsUpTo(ScrubAlphabet, MaxNameLen) \ {<<>>, <<"i","n">>}

\* Tables of names: a class of such a name, used as the type of a variable, of a
\* field, and of the parameter and the return value of a method and of a function;
\* the class B that uses it may inherit from it too
InitNames ==
    \E t \in TypeNames :
      \E h \in {null, t} :
        Start((t :> StructuredSymbol(t, "Class", null, <<>>))
              @@ (B :> StructuredSymbol(B, "Class", h,
                         <<PropertyMember(x, ObjectType(t, "Class")),
                           MethodMember(m, <<CallSignature(
                               <<Parameter(p, ObjectType(t, "Class"))>>,
                               ObjectType(t, "Class"))>>)>>))
              @@ (f :> FunctionSymbol(f, <<CallSignature(
                               <<Parameter(p, ObjectType(t, "Class"))>>,
                               ObjectType(t, "Class"))>>))
              @@ (v :> VariableSymbol(v, ObjectType(t, "Class"))),
              <<t, B, f, v>>)

SpecNames == InitNames /\ [][Next]_vars

-----------------------------------------------------------------------------
(* What the properties are stated over *)

\* The declarations of the final output, in order
Emitted == [k \in 1..Len(sortedGenerators) |-> generators[sortedGenerators[k]]]

\* The structured type name is in the final output
IsEmitted(name) ==
    \E k \in 1..Len(Emitted) : Emitted[k].gen = "ClassGen" /\ Emitted[k].name = name

Elements(seq) == {seq[k] : k \in 1..Len(seq)}

\* The types the oracle classifies as number-like, string-like, void or boolean
IsPrimitive(tsType) == tsType.flags \cap {"Number", "String", "Void", "Boolean"} # {}

RECURSIVE Units(_)
\* The smallest units of a member table, in the order of enumeration: one per
\* property, per constructor overload, per method call signature and per member of
\* another kind, each with the types it has to resolve
Units(members) ==
    IF members = <<>> THEN <<>>
    ELSE LET member == Head(members)
             own ==
               IF "Constructor" \in member.flags
               THEN [k \in 1..Len(member.declarations) |->
                        [unit |-> "constructor", name |-> member.name,
                         params |-> [j \in 1..Len(member.declarations[k].parameters) |->
                                        member.declarations[k].parameters[j].name],
                         types |-> [j \in 1..Len(member.declarations[k].parameters) |->
                                       member.declarations[k].parameters[j].type]]]
               ELSE IF "Property" \in member.flags
               THEN <<[unit |-> "field", name |-> member.name, params |-> <<>>,
                       types |-> <<member.type>>]>>
               ELSE IF "Method" \in member.flags
               THEN [k \in 1..Len(member.type.callSignatures) |->
                        [unit |-> "method", name |-> member.name,
                         params |-> [j \in 1..Len(member.type.callSignatures[k].parameters) |->
                                        member.type.callSignatures[k].parameters[j].name],
                         types |-> [j \in 1..Len(member.type.callSignatures[k].parameters) |->
                                       member.type.callSignatures[k].parameters[j].type]
                                   \o <<member.type.callSignatures[k].returnType>>]]
               ELSE <<[unit |-> "member", name |-> member.name, params |-> <<>>,
                       types |-> <<>>]>>
         IN  own \o Units(Tail(members))

\* Every type of the unit is a primitive one
Resolves(unit) == \A k \in 1..Len(unit.types) : IsPrimitive(unit.types[k])

RECURSIVE AncestorFields(_, _)
\* The names of the fields of the ClassGen name and of those above it on the chain
\* of inherit, followed for at most depth links
AncestorFields(name, depth) ==
    IF name = null \/ depth = 0 \/ name \notin DOMAIN classes THEN {}
    ELSE {classes[name].fields[k].name : k \in 1..Len(classes[name].fields)}
         \cup AncestorFields(classes[name].inherit, depth - 1)

\* The units of one kind among the members of the symbol name
UnitsOf(name, kind) ==
    SelectSeq(Units(symbols[name].members), LAMBDA u : u.unit = kind)

\* Those that classGen has to keep, and those it has to drop with a warning: a
\* field that an ancestor has is neither kept nor warned about
Inherited(name, u) ==
    /\ u.unit = "field"
    /\ u.name \in AncestorFields(symbols[name].heritage, Cardinality(StructNames))

Resolvable(name, kind) ==
    SelectSeq(UnitsOf(name, kind), LAMBDA u : Resolves(u) /\ ~Inherited(name, u))

Unresolvable(name, kind) ==
    SelectSeq(UnitsOf(name, kind), LAMBDA u : ~Resolves(u) /\ ~Inherited(name, u))

-----------------------------------------------------------------------------
(* C1: in the final output, each key a declaration D depends on is the key  *)
(* of another declaration emitted strictly earlier than D, or the key of no *)
(* emitted declaration; never the key of D itself or of a later one.        *)
C1_DependenciesEarlier ==
    pc = "done" =>
        \A d \in 1..Len(Emitted) :
            \A key \in Elements(depends(classes, Emitted[d])) :
                \/ \E e \in 1..(d - 1) : dependKey(Emitted[e]) = key
                \/ \A e \in 1..Len(Emitted) : dependKey(Emitted[e]) # key

(* C1 as amended: each key D depends on is D's own key (a structured type   *)
(* with a field, parameter or return type of its own type), or the key of   *)
(* another declaration emitted strictly earlier, or the key of no emitted   *)
(* declaration; never the key of a declaration emitted later.               *)
C1_DependenciesEarlierOrSelf ==
    pc = "done" =>
        \A d \in 1..Len(Emitted) :
            \A key \in Elements(depends(classes, Emitted[d])) :
                \/ key = dependKey(Emitted[d])
                \/ \E e \in 1..(d - 1) : dependKey(Emitted[e]) = key
                \/ \A e \in 1..Len(Emitted) : dependKey(Emitted[e]) # key

\* A declaration is emitted after one it depends on, which is itself emitted after
\* one it depends on
C1_Witness ==
    /\ pc = "done"
    /\ \E c \in 1..Len(Emitted), d \in 1..Len(Emitted), e \in 1..Len(Emitted) :
          /\ c < d /\ d < e
          /\ dependKey(Emitted[d]) \in Elements(depends(classes, Emitted[e]))
          /\ dependKey(Emitted[c]) \in Elements(depends(classes, Emitted[d]))

-----------------------------------------------------------------------------
\* The oracle reports a property of the type b among the members of a
C2_DeclaresField(a, b) ==
    \E k \in 1..Len(symbols[a].members) :
        /\ "Property" \in symbols[a].members[k].flags
        /\ symbols[a].members[k].type.symbol = b

\* The built ClassGen of a has kept a field of the type b
C2_KeepsField(a, b) ==
    /\ lifecycle(classes, a) = "built"
    /\ \E k \in 1..Len(classes[a].fields) : typeDependKey(classes[a].fields[k].type) = b

\* Neither is in the final output, and one warning names both
C2_Dropped(a, b) ==
    /\ ~IsEmitted(a)
    /\ ~IsEmitted(b)
    /\ Cardinality({k \in 1..Len(warnings) :
                       {a, b} \subseteq Elements(warnings[k].names)}) = 1

(* C2: for two top-level structured types A and B where A has a field of    *)
(* type B and B has a field of type A, whatever their other members are,    *)
(* neither is in the final output and a single warning names both.          *)
C2_MutualFieldsDropped ==
    pc = "done" =>
        \A a \in StructNames, b \in StructNames :
            (a # b /\ C2_DeclaresField(a, b) /\ C2_DeclaresField(b, a)) => C2_Dropped(a, b)

(* C2 as amended: for two top-level structured types A and B that both end  *)
(* built, A having kept a field of type B and B a field of type A, neither  *)
(* is in the final output and exactly one warning names both.               *)
C2_MutualKeptFieldsDropped ==
    pc = "done" =>
        \A a \in StructNames, b \in StructNames :
            (a # b /\ C2_KeepsField(a, b) /\ C2_KeepsField(b, a)) => C2_Dropped(a, b)

\* Two built classes have kept a field of each other's type, one of them next to
\* another member
C2_Witness ==
    /\ pc = "done"
    /\ \E a \in StructNames, b \in StructNames :
          /\ a # b /\ C2_KeepsField(a, b) /\ C2_KeepsField(b, a)
          /\ Len(classes[a].fields) > 1

-----------------------------------------------------------------------------
\* The keys of the groups the loop over groupedGenerators drops for being cycles
C3_DroppedKeys ==
    UNION {Elements(scc) : scc \in {t \in Elements(tarjan(dependencies)) : Len(t) > 1}}

(* C3: every call signature of a top-level function that resolved is kept   *)
(* as its own declaration: each SignatureGen that functionGen returned,     *)
(* whose dependencies are in no dropped cycle group, is in the final        *)
(* output, however many other signatures of the function there are.         *)
C3_EverySignatureEmitted ==
    pc = "done" =>
        \A g \in 1..Len(generators) :
            (/\ generators[g].gen = "SignatureGen"
             /\ Elements(depends(classes, generators[g])) \cap C3_DroppedKeys = {})
            => g \in Elements(sortedGenerators)

-----------------------------------------------------------------------------
\* The constructors of the built ClassGen name are the defaulted ones: those of its
\* parent, each owned by name, or one without parameters
C4_Defaulted(name) ==
    LET this == classes[name]
    IN  /\ \A k \in 1..Len(this.constructors) : this.constructors[k].owner = name
        /\ IF this.inherit # null
           THEN /\ Len(this.constructors) = Len(classes[this.inherit].constructors)
                /\ \A k \in 1..Len(this.constructors) :
                      this.constructors[k].params = classes[this.inherit].constructors[k].params
           ELSE /\ Len(this.constructors) = 1
                /\ this.constructors[1].params = <<>>

(* C4: a built structured type none of whose constructor overloads was      *)
(* accepted (it declares none, or each was dropped for an unresolvable      *)
(* parameter type) has, with a parent of N constructors, exactly N          *)
(* constructors with the parent's parameter lists in the same order, each   *)
(* owned by the child, and without a parent exactly one constructor with no *)
(* parameters.                                                              *)
C4_DefaultedWhenNoneAccepted ==
    \A name \in StructNames :
        (lifecycle(classes, name) = "built" /\ Resolvable(name, "constructor") = <<>>)
        => C4_Defaulted(name)

(* C4 as amended: a built structured type that declares no constructor      *)
(* overload has, with a parent of N constructors, exactly N constructors    *)
(* with the parent's parameter lists in the same order, each owned by the   *)
(* child, and without a parent exactly one constructor with no parameters;  *)
(* one that declares overloads has the accepted ones only, none when every  *)
(* one was dropped.                                                         *)
C4_DefaultedWhenNoneDeclared ==
    \A name \in StructNames :
        lifecycle(classes, name) = "built" =>
            IF UnitsOf(name, "constructor") = <<>>
            THEN C4_Defaulted(name)
            ELSE [k \in 1..Len(classes[name].constructors) |->
                     [j \in 1..Len(classes[name].constructors[k].params) |->
                         classes[name].constructors[k].params[j].name]]
                 = [k \in 1..Len(Resolvable(name, "constructor")) |->
                       Resolvable(name, "constructor")[k].params]

\* A built class that declares no constructor has a parent with two constructors
C4_Witness ==
    \E name \in StructNames :
        /\ lifecycle(classes, name) = "built"
        /\ UnitsOf(name, "constructor") = <<>>
        /\ classes[name].inherit # null
        /\ Len(classes[classes[name].inherit].constructors) = 2
        /\ Len(classes[name].constructors) = 2

-----------------------------------------------------------------------------
\* The rendered procedure is one that ConstructorGen.declString renders
C5_IsConstructorProc(proc) ==
    /\ proc.directive = "importcpp"
    /\ Len(proc.symbol) >= 4
    /\ SubSeq(proc.symbol, 1, 4) = <<"n","e","w"," ">>

(* C5: the rendered declaration of a structured type that the oracle        *)
(* reports as an interface contains no constructor procedure, in whatever   *)
(* order the symbols are visited.                                           *)
C5_InterfaceHasNoConstructor ==
    pc = "done" =>
        \A k \in 1..Len(Emitted) :
            (Emitted[k].gen = "ClassGen" /\ "Interface" \in symbols[Emitted[k].name].flags)
            => \A j \in 1..Len(output[k].procs) : ~C5_IsConstructorProc(output[k].procs[j])

-----------------------------------------------------------------------------
-----------------------------------------------------------------------------
(* C7: identifierScrub is idempotent: for every name, scrubbing the result  *)
(* of identifierScrub again gives the same result.                          *)
C7_ScrubIdempotent == pc = "scrubbed" => twice = once


-----------------------------------------------------------------------------
\* The warnings of these kinds about the members of the class on
C8_Warnings(on, kinds) ==
    Cardinality({k \in 1..Len(warnings) : warnings[k].on = on /\ warnings[k].kind \in kinds})

\* The built ClassGen name has every resolvable unit of its members, in the order
\* of enumeration, and nothing else; each unresolvable one has its warning
C8_OnlyUnresolvableDropped(name) ==
    LET this == classes[name]
    IN  /\ [k \in 1..Len(this.fields) |-> this.fields[k].name]
           = [k \in 1..Len(Resolvable(name, "field")) |-> Resolvable(name, "field")[k].name]
        /\ [k \in 1..Len(this.methods) |->
               <<this.methods[k].name,
                 [j \in 1..Len(this.methods[k].params) |-> this.methods[k].params[j].name]>>]
           = [k \in 1..Len(Resolvable(name, "method")) |->
                 <<Resolvable(name, "method")[k].name, Resolvable(name, "method")[k].params>>]
        /\ UnitsOf(name, "constructor") # <<>> =>
              Len(this.constructors) = Len(Resolvable(name, "constructor"))
        /\ C8_Warnings(name, {"property"}) = Len(Unresolvable(name, "field"))
        /\ C8_Warnings(name, {"method"}) = Len(Unresolvable(name, "method"))
        /\ C8_Warnings(name, {"constructor"}) = Len(Unresolvable(name, "constructor"))

\* The call signatures of the function f, as units
C8_Signatures == Units(<<MethodMember(f, symbols[f].type.callSignatures)>>)

(* C8: an unrepresentable type is absorbed by the unit that hit it.  Once   *)
(* every symbol is visited: no classGen call has ended with UnusableType    *)
(* and none has left the loop; a structured type is invalid only when its   *)
(* parent is, never for a member; a built one has all its resolvable        *)
(* fields, constructor overloads and method signatures, each unresolvable   *)
(* one dropped with one warning; and the function has yielded all its       *)
(* resolvable signatures, each other one dropped with one warning.          *)
C8_UnusableTypeAbsorbed ==
    /\ pc # "uncaught"
    /\ \A k \in 1..Len(calls) : calls[k].exc # "UnusableType"
    /\ cursor > Len(order) =>
          /\ \A name \in StructNames :
                /\ lifecycle(classes, name) \in {"built", "invalid"}
                /\ lifecycle(classes, name) = "invalid" =>
                      /\ symbols[name].heritage # null
                      /\ lifecycle(classes, symbols[name].heritage) = "invalid"
                /\ lifecycle(classes, name) = "built" => C8_OnlyUnresolvableDropped(name)
          /\ LET yielded == SelectSeq(generators,
                                LAMBDA g : g.gen = "SignatureGen" /\ g.name = f)
                 resolved == SelectSeq(C8_Signatures, LAMBDA u : Resolves(u))
             IN  /\ [k \in 1..Len(yielded) |->
                        [j \in 1..Len(yielded[k].params) |-> yielded[k].params[j].name]]
                    = [k \in 1..Len(resolved) |-> resolved[k].params]
                 /\ Cardinality({k \in 1..Len(warnings) : warnings[k].kind = "function"})
                    = Len(C8_Signatures) - Len(resolved)

\* A built class has dropped a unit of an unrepresentable type with a warning and
\* kept another unit
C8_Witness ==
    /\ cursor > Len(order)
    /\ \E name \in StructNames :
          /\ lifecycle(classes, name) = "built"
          /\ \E kind \in {"field", "method", "constructor"} :
                /\ Unresolvable(name, kind) # <<>>
                /\ Resolvable(name, kind) # <<>>
          /\ C8_Warnings(name, {"property", "method", "constructor"}) > 0
          /\ Len(classes[name].fields) + Len(classes[name].methods) > 0

-----------------------------------------------------------------------------
(* C9: whenever classGen is called for a name whose structured type is      *)
(* under construction, through an inheritance clause or through the type of *)
(* a field, parameter or return value, the call fails with a construction   *)
(* failure instead of returning the unfinished node, and the build ends.    *)
C9_BuildingNameFails ==
    /\ pc # "uncaught"
    /\ \A k \in 1..Len(calls) :
          calls[k].before = "building" => calls[k].exc = "GenConstructFail"

(* C9 as amended: a classGen call for a name under construction returns the *)
(* unfinished node without failing and without building it again; it is the *)
(* construction whose inheritance clause names a type under construction    *)
(* (itself included) that fails with a construction failure and ends        *)
(* invalid; no construction starts for a name under construction, and the   *)
(* build ends.                                                              *)
C9_BuildingParentFails ==
    /\ pc # "uncaught"
    /\ \A k \in 1..Len(calls) :
          LET call == calls[k]
          IN  /\ call.before = "building" =>
                    /\ call.exc = "none"
                    /\ ~call.created
                    /\ call.after = "building"
              /\ call.created =>
                    /\ call.before = "unbuilt"
                    /\ call.name \notin call.building
                    /\ (symbols[call.name].heritage \in call.building \cup {call.name}) =>
                          /\ call.exc = "GenConstructFail"
                          /\ call.after = "invalid"

\* One call has met a name under construction through the type of a field,
\* parameter or return value, the construction going on to end built, and the
\* construction of a type whose parent was under construction has failed
C9_Witness ==
    \E j \in 1..Len(calls), k \in 1..Len(calls) :
        /\ calls[j].before = "building"
        /\ lifecycle(classes, calls[j].name) = "built"
        /\ calls[k].created
        /\ symbols[calls[k].name].heritage \in calls[k].building
        /\ calls[k].exc = "GenConstructFail"

-----------------------------------------------------------------------------
\* What one classGen call may meet and leave behind
C10_Call(call) ==
    /\ call.before # "broken"
    /\ call.after # "broken"
    /\ call.before = "unbuilt" =>
          \/ /\ call.created
             /\ call.after \in {"built", "invalid"}
             /\ call.exc = "none" <=> call.after = "built"
          \/ /\ ~call.created
             /\ call.after = "unbuilt"
             /\ call.exc = "GenConstructFail"
    /\ call.before = "building" => ~call.created /\ call.after = "building"
    /\ call.before = "built" => ~call.created /\ call.after = "built" /\ call.exc = "none"
    /\ call.before = "invalid" =>
          ~call.created /\ call.after = "invalid" /\ call.exc = "GenConstructFail"

\* Between two rounds of the loop over the symbols: no name is forgotten, a built
\* node does not change and an invalid one stays invalid
C10_Step ==
    \A name \in DOMAIN classes :
        /\ name \in DOMAIN classes'
        /\ lifecycle(classes, name) = "built" => classes'[name] = classes[name]
        /\ lifecycle(classes, name) = "invalid" => lifecycle(classes', name) = "invalid"

-----------------------------------------------------------------------------
\* The identifier under which the type declaration of the ClassGen name is rendered
C11_DeclaredAs(name) == classDeclString(classes[name]).name

\* The rendered type of a use site is the identifier type is declared under
C11_Same(type, rendered) ==
    type.gen = "ClassGen" => rendered = C11_DeclaredAs(type.name)

\* The parameters after the first skip and the return value of the SignatureGen g,
\* in its rendering proc
C11_Signature(g, proc, skip) ==
    /\ C11_Same(g.returnType, proc.returns)
    /\ \A k \in 1..Len(g.params) : C11_Same(g.params[k].type, proc.params[k + skip].type)

(* C11: in every emitted declaration that uses a structured type T as the   *)
(* type of a variable, field, parameter or return value, the identifier     *)
(* rendered for T at the use site (ClassGen.typeString) is the identifier   *)
(* under which T's own type declaration is rendered (identifierScrub of     *)
(* T.name), for all names, those that identifierScrub changes included.     *)
C11_UseSiteNamesDeclaration ==
    pc = "done" =>
        \A k \in 1..Len(Emitted) :
            LET g == Emitted[k]
            IN  IF g.gen = "VariableGen" THEN C11_Same(g.type, output[k].type)
                ELSE IF g.gen = "SignatureGen" THEN C11_Signature(g, output[k], 0)
                ELSE LET this == classes[g.name]
                         first == Len(output[k].procs) - Len(this.methods)
                     IN  /\ \A j \in 1..Len(this.fields) :
                                C11_Same(this.fields[j].type, output[k].fields[j].type)
                         /\ \A j \in 1..Len(this.methods) :
                                /\ C11_Same(ClassGenRef(g.name),
                                            output[k].procs[first + j].params[1].type)
                                /\ C11_Signature(this.methods[j],
                                                 output[k].procs[first + j], 1)

=============================================================================
